---- MODULE Spec2Model ----
(***************************************************************************)
(* State-machine model of nonebot_plugin_bili2mp4/main.py.                 *)
(*                                                                         *)
(* The specifications share the same variables and actions:                *)
(*   SpecSel     - one invocation of _download_with_ytdlp (the rendition    *)
(*                 selector) over every rendition list up to MaxFormats    *)
(*                 and every behaviour of the retrieval engine and the     *)
(*                 file system that the code distinguishes;                *)
(*   Spec        - the message handler, the administrator commands and     *)
(*                 the fire-and-forget tasks running _download_and_send;   *)
(*   SpecPipe    - one task from its creation to its end, under every      *)
(*                 duration and height limit and remap table, the height   *)
(*                 limit changing while it runs;                           *)
(*   SpecAdmin   - the administrator commands, the writes of state.json    *)
(*                 with their failures, and restarts;                      *)
(*   SpecExtract - _extract_bili_urls_from_event on messages of up to      *)
(*                 MaxSegs segments;                                       *)
(*   SpecNorm    - _normalize_bili_url on two links to the same video;     *)
(*   SpecRenorm  - _normalize_bili_url applied to its own result;          *)
(*   SpecCodec   - _bili_av_to_bv on two ids, in exact arithmetic;         *)
(*   SpecCookie  - the credential commands and the credential file that    *)
(*                 the downloads write and remove;                         *)
(*   SpecLink    - group messages of one link and the tasks they start.    *)
(***************************************************************************)
EXTENDS Integers, Sequences, FiniteSets, TLC

(* ------------------------------ bounds -------------------------------- *)

\* longest rendition list the retrieval engine returns
MaxFormats == 2

\* task slots: tasks that can be alive at the same time
MaxTasks == 2

\* segments of a group message given to the extractor
MaxSegs == 2

(* --------------------------- value domains ---------------------------- *)

\* bytes per MB, the divisor of both size checks
MB == 1024 * 1024

\* declared heights; 0 stands for a missing/None/0 height (fmt.get("height") or 0)
Heights == {0, 1, 2}

\* declared bitrates; 0 stands for a missing tbr
Bitrates == {0, 1}

\* (filesize_approx, filesize) pairs in bytes the engine may declare; 0 stands for
\* a missing/None/0 field (falsy in the code)
SizePairs == {<<0, 0>>, <<0, MB>>, <<0, MB + 1>>, <<MB, MB + 1>>, <<MB + 1, 0>>}

\* sizes in bytes of a file the engine writes
ActualSizes == {MB, MB + 1}

\* values of the height limit (0 = unlimited)
HeightLimits == {0, 1}

\* values of the size limit in MB (0 = unlimited)
SizeLimits == {0, 1}

\* values of the duration limit in seconds (0 = unlimited)
DurationLimits == {0, 1}

\* durations the metadata probe may report, in seconds
Durations == {1, 2}

Groups == {1, 2}

Videos == {1, 2}

TaskIds == 1 .. MaxTasks

(* A rendition descriptor as the engine reports it (an entry of info["formats"]). *)
VideoRenditions ==
    { [vcodec |-> "avc", height |-> h, tbr |-> b, filesize_approx |-> sp[1], filesize |-> sp[2]] :
        h \in Heights, b \in Bitrates, sp \in SizePairs }

AudioRenditions ==
    { [vcodec |-> "none", height |-> 0, tbr |-> 1, filesize_approx |-> 0, filesize |-> MB] }

Renditions == VideoRenditions \cup AudioRenditions

RECURSIVE SeqsUpTo(_, _)
SeqsUpTo(S, n) ==
    IF n = 0 THEN {<<>>}
    ELSE LET shorter == SeqsUpTo(S, n - 1)
         IN  shorter \cup { Append(s, x) : s \in {q \in shorter : Len(q) = n - 1}, x \in S }

\* every list the engine may return to the selector under test
AllFormatLists == SeqsUpTo(Renditions, MaxFormats)

(* ------------------------------ state --------------------------------- *)

VARIABLES
    enabled_groups,     \* set of group ids with conversion enabled
    bilibili_cookie,    \* the credential string, "" = none
    max_height,         \* height limit, 0 = unlimited
    max_filesize_mb,    \* size limit in MB, 0 = unlimited
    max_duration_sec,   \* duration limit in seconds, 0 = unlimited
    path_mappings,      \* dict virtual path -> real path, as the sequence of its items
    state_file,         \* content of state.json
    call,               \* arguments of the function call under study
    ret,                \* its return value
    _processing,        \* link strings with a task in flight
    tasks,              \* task slot -> record (position and locals of the task)
    disk,               \* download directory: file path -> size in bytes, 0 = no file
    cookie_file         \* bili_cookies.txt: "absent", "partial" or the credential written

vars == <<enabled_groups, bilibili_cookie, max_height, max_filesize_mb, max_duration_sec,
          path_mappings, state_file, call, ret, _processing, tasks, disk, cookie_file>>

\* the globals _save_state writes and _load_state reads
config == <<enabled_groups, bilibili_cookie, max_height, max_filesize_mb,
            max_duration_sec, path_mappings>>

\* what neither a group message nor a download task changes
settings == <<config, state_file, call, ret>>

\* the same with the credential file, which only the entry of the selector writes
background == <<settings, cookie_file>>

NoLink == <<"none", 0>>

\* ffprobe has not been run
NoProbe == [k |-> "none", h |-> 0]

FreeTask ==
    [pc |-> "free", group_id |-> 0, u |-> NoLink, norm_url |-> NoLink,
     dur |-> -1, cookie |-> "", cookiefile |-> FALSE,
     height_limit |-> 0, size_limit_mb |-> 0,
     info |-> <<>>, formats |-> <<>>, idx |-> 0, last_err |-> "none",
     final_path |-> 0, attempts |-> <<>>, result |-> "none",
     probe |-> NoProbe, send_path |-> <<>>, cleanup |-> "none", exit |-> "none"]

\* outtmpl is "<title> [<id>].<ext>" under the download directory: the file name
\* depends on the video, not on the rendition requested
PathOf(url) == url[2]

(* --------------------- _download_with_ytdlp -------------------------- *)

\* how open("w") and the write may end: the content is written; the file cannot
\* be opened and stays as it was; the write stops after the file was truncated
WriteOutcomes == {"ok", "open_failed", "write_failed"}

\* the (name, value) pairs of a credential string: the parts split at ";" that
\* hold "=" with a name and a value
CookiePairs(cookie_string) ==
    IF cookie_string = "SESSDATA=1" THEN << <<"SESSDATA", "1">> >> ELSE <<>>

\* _ensure_cookiefile: [path: whether the path of the file is returned (None
\* otherwise), file: the file afterwards]
_ensure_cookiefile(cookie_string, file, unlink_ok, written) ==
    IF cookie_string = ""
    THEN [path |-> FALSE,
          file |-> IF file # "absent" /\ unlink_ok THEN "absent" ELSE file]
    ELSE IF CookiePairs(cookie_string) = <<>> THEN [path |-> FALSE, file |-> file]
    ELSE IF written = "ok" THEN [path |-> TRUE, file |-> cookie_string]
    ELSE [path |-> FALSE, file |-> IF written = "open_failed" THEN file ELSE "partial"]

\* info["formats"] with each entry's format_id (its position in the engine's list)
WithIds(info) ==
    [i \in 1 .. Len(info) |->
        [format_id |-> i, vcodec |-> info[i].vcodec, height |-> info[i].height,
         tbr |-> info[i].tbr, filesize_approx |-> info[i].filesize_approx,
         filesize |-> info[i].filesize]]

\* formats = [f for f in formats if f.get("vcodec") != "none"]
RECURSIVE FilterVideo(_)
FilterVideo(fs) ==
    IF fs = <<>> THEN <<>>
    ELSE LET rest == FilterVideo(Tail(fs))
         IN  IF Head(fs).vcodec # "none" THEN <<Head(fs)>> \o rest ELSE rest

\* the sort key ((height or 0), (tbr or 0)) compared as Python compares tuples
KeyGE(a, b) == a.height > b.height \/ (a.height = b.height /\ a.tbr >= b.tbr)

\* (variant: the sort without reverse=True)
KeyLEAscending(a, b) == b.height > a.height \/ (a.height = b.height /\ b.tbr >= a.tbr)

\* place x in a list already sorted descending, behind every entry whose key is
\* not smaller (list.sort is stable, also with reverse=True)
RECURSIVE InsertDesc(_, _)
InsertDesc(x, s) ==
    IF s = <<>> THEN <<x>>
    ELSE IF KeyGE(Head(s), x) THEN <<Head(s)>> \o InsertDesc(x, Tail(s))
         ELSE <<x>> \o s

RECURSIVE InsertAsc(_, _)
InsertAsc(x, s) ==
    IF s = <<>> THEN <<x>>
    ELSE IF KeyLEAscending(Head(s), x) THEN <<Head(s)>> \o InsertAsc(x, Tail(s))
         ELSE <<x>> \o s

RECURSIVE SortAscending(_)
SortAscending(fs) ==
    IF fs = <<>> THEN <<>>
    ELSE InsertAsc(fs[Len(fs)], SortAscending(SubSeq(fs, 1, Len(fs) - 1)))

\* formats.sort(key=lambda f: ((f.get("height") or 0), (f.get("tbr") or 0)), reverse=True)
RECURSIVE SortDesc(_)
SortDesc(fs) ==
    IF fs = <<>> THEN <<>>
    ELSE InsertDesc(fs[Len(fs)], SortDesc(SubSeq(fs, 1, Len(fs) - 1)))

\* (variant: the height pre-check left out)
HeightSkipNever(fmt, height_limit) == FALSE

\* the pre-check on the declared height

HeightSkip(fmt, height_limit) ==
    height_limit # 0 /\ fmt.height # 0 /\ fmt.height > height_limit

\* filesize_bytes: filesize_approx when truthy, else filesize when truthy, else None (0)
SizeEstimate(fmt) ==
    IF fmt.filesize_approx # 0 THEN fmt.filesize_approx ELSE fmt.filesize

\* (variant: whole megabytes compared, the fraction dropped)
OverLimitFloorMB(bytes, limit_mb) == bytes \div MB > limit_mb

\* bytes / (1024 * 1024) > limit_mb, in exact arithmetic

OverLimit(bytes, limit_mb) == bytes > limit_mb * MB

\* the pre-check on the declared size
SizeSkip(fmt, size_limit_mb) ==
    size_limit_mb # 0 /\ SizeEstimate(fmt) # 0 /\ OverLimit(SizeEstimate(fmt), size_limit_mb)

\* the attempt log: one entry per extract_info(download=True) call
LogAttempt(tk, outcome) ==
    Append(tk.attempts, [format_id |-> tk.formats[tk.idx].format_id, outcome |-> outcome])

SetLastOutcome(tk, outcome) ==
    [tk.attempts EXCEPT ![Len(tk.attempts)].outcome = outcome]

\* entry: import of the engine (ImportError when it is not installed), creation
\* of the download directory (an OSError is not caught here)
YtdlpEnter(t) ==
    /\ tasks[t].pc = "dl_enter"
    /\ \E outcome \in {"ready", "ImportError", "OSError"} :
         IF outcome = "ready"
         THEN \E unlink_ok \in BOOLEAN, written \in WriteOutcomes :
                LET r == _ensure_cookiefile(tasks[t].cookie, cookie_file,
                                            unlink_ok, written)
                IN  /\ tasks' = [tasks EXCEPT ![t].pc = "dl_list",
                                              ![t].cookiefile = r.path]
                    /\ cookie_file' = r.file
         ELSE /\ tasks' = [tasks EXCEPT ![t].pc = "dl_done", ![t].result = outcome]
              /\ UNCHANGED cookie_file
    /\ UNCHANGED <<settings, _processing, disk>>

\* step 1: list the renditions without downloading, filter, sort
YtdlpListFormats(t, lists) ==
    /\ tasks[t].pc = "dl_list"
    /\ \/ tasks' = [tasks EXCEPT ![t].pc = "dl_done", ![t].result = "ListError"]
       \/ \E info \in lists :
            tasks' = [tasks EXCEPT ![t].pc = "dl_loop",
                                   ![t].info = info,
                                   ![t].formats = SortDesc(FilterVideo(WithIds(info))),
                                   ![t].idx = 1]
    /\ UNCHANGED <<background, _processing, disk>>

\* step 2, top of the loop body: both pre-checks on the declared metadata
YtdlpPrecheck(t) ==
    LET tk == tasks[t] IN
    /\ tk.pc = "dl_loop"
    /\ tk.idx <= Len(tk.formats)
    /\ tasks' = [tasks EXCEPT ![t] =
                   IF \/ HeightSkip(tk.formats[tk.idx], tk.height_limit)
                      \/ SizeSkip(tk.formats[tk.idx], tk.size_limit_mb)
                   THEN [@ EXCEPT !.idx = @ + 1]
                   ELSE [@ EXCEPT !.pc = "dl_fetch"]]
    /\ UNCHANGED <<background, _processing, disk>>

\* (variant: a retrieval error ends the invocation instead of the iteration)
YtdlpFetchAbortsOnError(t) ==
    LET tk == tasks[t] IN
    /\ tk.pc = "dl_fetch"
    /\ \/ /\ tasks' = [tasks EXCEPT ![t].attempts = LogAttempt(tk, "error"),
                                    ![t].last_err = "download",
                                    ![t].result = "NoSuitable",
                                    ![t].pc = "dl_done"]
          /\ UNCHANGED disk
       \/ \E size \in ActualSizes :
            /\ disk' = [disk EXCEPT ![PathOf(tk.norm_url)] = size]
            /\ tasks' = [tasks EXCEPT ![t].attempts = LogAttempt(tk, "file"),
                                      ![t].final_path = PathOf(tk.norm_url),
                                      ![t].pc = "dl_post"]
    /\ UNCHANGED <<background, _processing>>

\* extract_info(download=True) for one format_id, then _locate_final_file
YtdlpFetch(t) ==
    LET tk == tasks[t] IN
    /\ tk.pc = "dl_fetch"
    /\ \/ \* DownloadError or any other exception
          /\ tasks' = [tasks EXCEPT ![t].attempts = LogAttempt(tk, "error"),
                                    ![t].last_err = "download",
                                    ![t].idx = tk.idx + 1,
                                    ![t].pc = "dl_loop"]
          /\ UNCHANGED disk
       \/ \* no output file found
          /\ tasks' = [tasks EXCEPT ![t].attempts = LogAttempt(tk, "notfound"),
                                    ![t].last_err = "notfound",
                                    ![t].idx = tk.idx + 1,
                                    ![t].pc = "dl_loop"]
          /\ UNCHANGED disk
       \/ \* a file is materialized
          \E size \in ActualSizes :
            /\ disk' = [disk EXCEPT ![PathOf(tk.norm_url)] = size]
            /\ tasks' = [tasks EXCEPT ![t].attempts = LogAttempt(tk, "file"),
                                      ![t].final_path = PathOf(tk.norm_url),
                                      ![t].pc = "dl_post"]
    /\ UNCHANGED <<background, _processing>>

\* (variant: the oversized file is left where it is)
UnlinkNothing(d, path, unlink_ok) == d

\* Path(final_path).unlink(missing_ok=True) inside try/except: the file is gone
\* unless the call raised

Unlink(d, path, unlink_ok) == IF unlink_ok THEN [d EXCEPT ![path] = 0] ELSE d

\* what the post-download check does with the file at final_path:
\* "accept" (return), or "reject" (unlink, record the failure, next candidate)
PostVerdict(size_limit_mb, stat_ok, size) ==
    IF size_limit_mb = 0 THEN "accept"
    ELSE IF ~stat_ok THEN "accept"
    ELSE IF OverLimit(size, size_limit_mb) THEN "reject"
    ELSE "accept"

\* (variant: an accepted file is remembered but the loop goes on)
YtdlpPostcheckNoReturn(t) ==
    LET tk == tasks[t] IN
    /\ tk.pc = "dl_post"
    /\ tasks' = [tasks EXCEPT ![t].attempts = SetLastOutcome(tk, "accepted"),
                              ![t].result = "ok",
                              ![t].idx = tk.idx + 1,
                              ![t].pc = "dl_loop"]
    /\ UNCHANGED <<background, _processing, disk>>

\* the post-download size check and the return
YtdlpPostcheck(t) ==
    LET tk == tasks[t] IN
    /\ tk.pc = "dl_post"
    /\ \E stat_ok \in (IF disk[tk.final_path] = 0 THEN {FALSE} ELSE BOOLEAN) :
         IF PostVerdict(tk.size_limit_mb, stat_ok, disk[tk.final_path]) = "accept"
         THEN /\ tasks' = [tasks EXCEPT ![t].attempts = SetLastOutcome(tk, "accepted"),
                                        ![t].result = "ok",
                                        ![t].pc = "dl_done"]
              /\ UNCHANGED disk
         ELSE \E unlink_ok \in BOOLEAN :
                /\ disk' = Unlink(disk, tk.final_path, unlink_ok)
                /\ tasks' = [tasks EXCEPT
                               ![t].attempts =
                                   SetLastOutcome(tk, IF unlink_ok THEN "oversize"
                                                      ELSE "oversize_kept"),
                               ![t].last_err = "oversize",
                               ![t].idx = tk.idx + 1,
                               ![t].pc = "dl_loop"]
    /\ UNCHANGED <<background, _processing>>

\* step 3: the loop is over without a return
YtdlpExhausted(t) ==
    LET tk == tasks[t] IN
    /\ tk.pc = "dl_loop"
    /\ tk.idx > Len(tk.formats)
    /\ tasks' = [tasks EXCEPT ![t].result = "NoSuitable", ![t].pc = "dl_done"]
    /\ UNCHANGED <<background, _processing, disk>>

(* ----------------------- link extraction ------------------------------ *)

(* A link string is <<kind, video>>:                                       *)
(*   "bv"      https://www.bilibili.com/video/BV...                        *)
(*   "bvq"     the same URL followed by a query (?p=2, ?share_source=...)  *)
(*   "aidq"    an http(s) URL that names the video by an aid or avid query *)
(*   "av"      the bare token av<digits>                                    *)
(*   "avurl"   an http(s) URL whose path holds /video/av<digits>, as typed *)
(*   "avslash" https://www.bilibili.com/video/av<digits>/, as the extractor *)
(*             rebuilds it                                                  *)
(*   "short"   a b23.tv short link                                          *)
UrlKinds == {"bv", "bvq", "aidq", "avurl", "avslash", "short"}

AvKinds == {"av", "avurl", "avslash"}

\* (variant: the link is appended without looking at the list)
AppendAlways(urls, u) == Append(urls, u)

\* if u not in urls: urls.append(u)
AppendNew(urls, u) ==
    IF \E k \in 1 .. Len(urls) : urls[k] = u THEN urls ELSE Append(urls, u)

RECURSIVE AppendAllNew(_, _)
AppendAllNew(urls, us) ==
    IF us = <<>> THEN urls ELSE AppendAllNew(AppendNew(urls, Head(us)), Tail(us))

\* BILI_URL_RE.findall(text), duplicates dropped
_find_urls_in_text(toks) ==
    AppendAllNew(<<>>, SelectSeq(toks, LAMBDA tok : tok[1] \in UrlKinds))

\* a segment is [type, payload, toks]: toks are the links and av tokens its
\* payload holds, in order; payload tells what the payload is: "str" a string
\* (for a card, one that parses), "malformed" a string json.loads rejects,
\* "nontext" not a string (a dict, a list, a number)

\* the payload of the segment makes BILI_URL_RE.findall raise TypeError; for a
\* segment of another type the handler scans str(seg), which is a string
Raises(seg) == seg.type \in {"text", "json", "xml", "share"} /\ seg.payload = "nontext"

\* the links one segment adds: findall over the raw payload and, for a card
\* that parses, over the strings inside it
ScanSegment(urls, seg) ==
    LET found == AppendAllNew(urls, _find_urls_in_text(seg.toks))
    IN  IF seg.type = "json" /\ seg.payload = "str"
        THEN AppendAllNew(found, _find_urls_in_text(seg.toks))
        ELSE found

\* the loop over the message segments: [urls, raised]; an exception leaves the
\* loop with the links collected so far
RECURSIVE ScanSegments(_, _)
ScanSegments(urls, segs) ==
    IF segs = <<>> THEN [urls |-> urls, raised |-> FALSE]
    ELSE IF Raises(Head(segs)) THEN [urls |-> urls, raised |-> TRUE]
    ELSE ScanSegments(ScanSegment(urls, Head(segs)), Tail(segs))

\* event.get_plaintext(): the text segments, in order
RECURSIVE PlainText(_)
PlainText(segs) ==
    IF segs = <<>> THEN <<>>
    ELSE (IF Head(segs).type = "text" THEN Head(segs).toks ELSE <<>>) \o PlainText(Tail(segs))

\* re.findall(r"(?i)\bav(\d+)\b", full_text): every av<digits>, also inside a URL
RECURSIVE AvTokens(_)
AvTokens(toks) ==
    IF toks = <<>> THEN <<>>
    ELSE (IF Head(toks)[1] \in AvKinds THEN << <<"av", Head(toks)[2]>> >> ELSE <<>>)
         \o AvTokens(Tail(toks))

\* re.findall(r"https?://[^\s\"'<>]*/video/av(\d+)", full_text), rebuilt with a slash
RECURSIVE AvUrls(_)
AvUrls(toks) ==
    IF toks = <<>> THEN <<>>
    ELSE (IF Head(toks)[1] \in {"avurl", "avslash"}
          THEN << <<"avslash", Head(toks)[2]>> >> ELSE <<>>)
         \o AvUrls(Tail(toks))

\* the whole body is one try: an exception in the loop skips the av forms too
_extract_bili_urls_from_event(event) ==
    LET scan  == ScanSegments(<<>>, event.segs)
        text  == PlainText(event.segs)
        urls2 == AppendAllNew(scan.urls, AvTokens(text))
    IN  IF scan.raised THEN scan.urls
        ELSE AppendAllNew(urls2, AvUrls(text))

\* the token lists of the text segment of a group message
TokenLists ==
    { << <<"bv", 1>> >>,
      << <<"bv", 1>>, <<"bv", 1>> >>,
      << <<"bv", 1>>, <<"av", 1>> >>,
      << <<"av", 1>> >> }

GroupMessages ==
    { [group_id |-> g, segs |-> << [type |-> "text", payload |-> "str", toks |-> ts] >>] :
        g \in Groups, ts \in TokenLists }

(* ------------------------- _normalize_bili_url ------------------------ *)

\* where the redirect of a short link may end: the request fails, or the final
\* URL is a link string of that kind
ExpandTargets == {"fail", "bv", "bvq", "avurl"}

\* _expand_short_url: the final URL for a b23.tv link, the link itself when the
\* request fails, any other link as it is
_expand_short_url(u, target) ==
    IF u[1] = "short" /\ target # "fail" THEN <<target, u[2]>> ELSE u

\* _extract_aid_from_url: 0 stands for None
_extract_aid_from_url(url) ==
    IF url[1] \in {"avurl", "avslash", "aidq"} THEN url[2] ELSE 0

\* _bili_av_to_bv, as the link string of the BV URL built from its result
BvUrlOfAid(aid) == <<"bv", aid>>

\* (variant: a BV URL loses its query string, and one without a query gets one)
NormalizeFlipsQuery(raw, target) ==
    IF raw[1] = "bv" THEN <<"bvq", raw[2]>>
    ELSE IF raw[1] = "bvq" THEN <<"bv", raw[2]>>
    ELSE BvUrlOfAid(raw[2])

_normalize_bili_url(raw, target) ==
    IF raw[1] = "av" THEN BvUrlOfAid(raw[2])
    ELSE LET u2  == _expand_short_url(raw, target)
             aid == _extract_aid_from_url(u2)
         IN  IF aid # 0 THEN BvUrlOfAid(aid) ELSE u2

\* _extract_bvid_from_url finds a BV id in the URL
HasBvid(url) == url[1] \in {"bv", "bvq"}

\* the duration the probe returns for a link; 0 stands for None
_get_bili_duration_seconds(norm_url, answer) ==
    IF HasBvid(norm_url) THEN answer ELSE 0

(* ------------------------------- paths -------------------------------- *)

\* paths are strings, written as sequences of characters
DOWNLOAD_DIR == <<"/", "d", "/", "l">>

\* str(Path(path).resolve()) of the file of a video
LocalPath(path) == DOWNLOAD_DIR \o <<"/", path>>

\* p_resolved.startswith(real_p)
StartsWith(p, real_p) ==
    Len(real_p) <= Len(p) /\ SubSeq(p, 1, Len(real_p)) = real_p

\* virt.rstrip("/")
RECURSIVE Rstrip(_)
Rstrip(virt) ==
    IF virt # <<>> /\ virt[Len(virt)] = "/" THEN Rstrip(SubSeq(virt, 1, Len(virt) - 1))
    ELSE virt

\* the loop over path_mappings.items() with its break: the first item whose real
\* path starts the local path gives the path to send
RECURSIVE SendPath(_, _)
SendPath(mappings, p_resolved) ==
    IF mappings = <<>> THEN p_resolved
    ELSE LET virt   == Head(mappings).virt
             real_p == Head(mappings).real
         IN  IF StartsWith(p_resolved, real_p)
             THEN LET rel  == SubSeq(p_resolved, Len(real_p) + 1, Len(p_resolved))
                      rel2 == IF rel # <<>> /\ rel[1] = "/" THEN rel ELSE <<"/">> \o rel
                  IN  Rstrip(virt) \o rel2
             ELSE SendPath(Tail(mappings), p_resolved)

(* --------------------------- message handler -------------------------- *)

\* bili_super_admins of the plugin configuration
bili_super_admins == {1}

Users == {1, 2}

\* the credential strings an administrator sets
Cookies == {"SESSDATA=1"}

\* the real directories an administrator maps: the parent of the download
\* directory, the download directory, and a directory elsewhere
RealDirs == { <<"/", "d">>, DOWNLOAD_DIR, <<"/", "x">> }

\* the virtual paths as typed, with or without the leading slash
TypedVirts == { <<"/", "v">>, <<"w">> }

\* the commands of _handle_group_command
GroupCommands ==
    { [op |-> "enable", arg |-> g] : g \in Groups }
    \cup { [op |-> "disable", arg |-> g] : g \in Groups }
    \cup { [op |-> "list", arg |-> 0] }

\* the commands of _handle_config_command
ConfigCommands ==
    { [op |-> "set_height", arg |-> h] : h \in HeightLimits }
    \cup { [op |-> "set_maxsize", arg |-> m] : m \in SizeLimits }
    \cup { [op |-> "set_maxdur", arg |-> d] : d \in DurationLimits }
    \cup { [op |-> "set_cookie", cookie |-> c] : c \in Cookies }
    \cup { [op |-> "clear_cookie"], [op |-> "show"], [op |-> "list_mappings"] }
    \cup { [op |-> "set_mapping", virt |-> v, real |-> r] : v \in TypedVirts, r \in RealDirs }
    \cup { [op |-> "remove_mapping", virt |-> v] : v \in TypedVirts }

Commands == GroupCommands \cup ConfigCommands

\* the private messages of the plugin specification: group 1 is switched on and
\* off and the duration limit is set, by an administrator or not
PrivateMessages ==
    { <<a, cmd>> : a \in bili_super_admins,
                   cmd \in { c \in Commands :
                               \/ c.op \in {"enable", "disable"} /\ c.arg = 1
                               \/ c.op = "set_maxdur" } }
    \cup { <<o, [op |-> "enable", arg |-> 2]>> : o \in Users \ bili_super_admins }

\* the six globals as one record
Globals ==
    [enabled_groups |-> enabled_groups, bilibili_cookie |-> bilibili_cookie,
     max_height |-> max_height, max_filesize_mb |-> max_filesize_mb,
     max_duration_sec |-> max_duration_sec, path_mappings |-> path_mappings]

\* the values of the module globals before _load_state
Defaults ==
    [enabled_groups |-> {}, bilibili_cookie |-> "",
     max_height |-> 0, max_filesize_mb |-> 0,
     max_duration_sec |-> 0, path_mappings |-> <<>>]

\* list(enabled_groups)
RECURSIVE ListOf(_)
ListOf(S) ==
    IF S = {} THEN <<>>
    ELSE LET x == CHOOSE y \in S : TRUE IN <<x>> \o ListOf(S \ {x})

\* set(map(int, lst))
SetOf(lst) == { lst[k] : k \in 1 .. Len(lst) }

\* the dict _save_state dumps
StateData(g) == [g EXCEPT !.enabled_groups = ListOf(g.enabled_groups)]

\* a content of state.json: no file, a complete record (data is the dict), or
\* the beginning of a record (data is then not used)
FileRecord(data) == [kind |-> "record", data |-> data]

AbsentFile == [kind |-> "absent", data |-> StateData(Defaults)]

PartialFile == [kind |-> "partial", data |-> StateData(Defaults)]


\* (variant: the file is left alone)
SaveNothing(file, g, outcome) == file

\* _save_state: the content of state.json afterwards
_save_state(file, g, outcome) ==
    IF outcome = "ok" THEN FileRecord(StateData(g))
    ELSE IF outcome = "open_failed" THEN file
    ELSE PartialFile

\* _load_state: the globals afterwards; a missing file and a file json.load
\* rejects leave them as they are
_load_state(file, g) ==
    IF file.kind # "record" THEN g
    ELSE [file.data EXCEPT !.enabled_groups = SetOf(file.data.enabled_groups)]

\* if not virt.startswith("/"): virt = "/" + virt
NormVirt(virt) == IF virt[1] # "/" THEN <<"/">> \o virt ELSE virt

\* virt in path_mappings
HasKey(m, virt) == \E k \in 1 .. Len(m) : m[k].virt = virt

\* path_mappings[virt] = real_p: a known key keeps its place, a new one goes last
DictSet(m, virt, real_p) ==
    IF HasKey(m, virt)
    THEN [k \in 1 .. Len(m) |-> IF m[k].virt = virt THEN [virt |-> virt, real |-> real_p]
                                 ELSE m[k]]
    ELSE Append(m, [virt |-> virt, real |-> real_p])

\* path_mappings.pop(virt, None)
DictPop(m, virt) == SelectSeq(m, LAMBDA e : e.virt # virt)

\* _handle_group_command: [g: the globals afterwards, save: _save_state called]
_handle_group_command(g, cmd) ==
    IF cmd.op = "enable"
    THEN IF cmd.arg \in g.enabled_groups THEN [g |-> g, save |-> FALSE]
         ELSE [g |-> [g EXCEPT !.enabled_groups = @ \cup {cmd.arg}], save |-> TRUE]
    ELSE IF cmd.op = "disable"
    THEN IF cmd.arg \in g.enabled_groups
         THEN [g |-> [g EXCEPT !.enabled_groups = @ \ {cmd.arg}], save |-> TRUE]
         ELSE [g |-> g, save |-> FALSE]
    ELSE [g |-> g, save |-> FALSE]

\* _handle_config_command: [g: the globals afterwards, save: _save_state called]
_handle_config_command(g, cmd) ==
    IF cmd.op = "set_cookie"
    THEN [g |-> [g EXCEPT !.bilibili_cookie = cmd.cookie], save |-> TRUE]
    ELSE IF cmd.op = "clear_cookie"
    THEN [g |-> [g EXCEPT !.bilibili_cookie = ""], save |-> TRUE]
    ELSE IF cmd.op = "set_height"
    THEN [g |-> [g EXCEPT !.max_height = cmd.arg], save |-> TRUE]
    ELSE IF cmd.op = "set_maxsize"
    THEN [g |-> [g EXCEPT !.max_filesize_mb = cmd.arg], save |-> TRUE]
    ELSE IF cmd.op = "set_maxdur"
    THEN [g |-> [g EXCEPT !.max_duration_sec = cmd.arg], save |-> TRUE]
    ELSE IF cmd.op = "set_mapping"
    THEN [g |-> [g EXCEPT !.path_mappings = DictSet(@, NormVirt(cmd.virt), cmd.real)],
          save |-> TRUE]
    ELSE IF cmd.op = "remove_mapping"
    THEN IF HasKey(g.path_mappings, NormVirt(cmd.virt))
         THEN [g |-> [g EXCEPT !.path_mappings = DictPop(@, NormVirt(cmd.virt))],
               save |-> TRUE]
         ELSE [g |-> g, save |-> FALSE]
    ELSE [g |-> g, save |-> FALSE]

\* the six globals take the values of a record
SetGlobals(g) ==
    /\ enabled_groups' = g.enabled_groups
    /\ bilibili_cookie' = g.bilibili_cookie
    /\ max_height' = g.max_height
    /\ max_filesize_mb' = g.max_filesize_mb
    /\ max_duration_sec' = g.max_duration_sec
    /\ path_mappings' = g.path_mappings

\* the six globals have the values of a record
SetGlobalsNow(g) ==
    /\ enabled_groups = g.enabled_groups
    /\ bilibili_cookie = g.bilibili_cookie
    /\ max_height = g.max_height
    /\ max_filesize_mb = g.max_filesize_mb
    /\ max_duration_sec = g.max_duration_sec
    /\ path_mappings = g.path_mappings

\* (variant: the sender is not looked at)
HandlePrivateMessageOfAnyone(sender, cmd, outcomes) ==
    /\ LET r == IF cmd.op \in {"enable", "disable", "list"}
                THEN _handle_group_command(Globals, cmd)
                ELSE _handle_config_command(Globals, cmd)
       IN  /\ SetGlobals(r.g)
           /\ IF r.save
              THEN \E outcome \in outcomes :
                     state_file' = _save_state(state_file, r.g, outcome)
              ELSE UNCHANGED state_file
    /\ UNCHANGED <<call, ret, _processing, tasks, disk, cookie_file>>

\* private message: the commands of _handle_group_command and
\* _handle_config_command, for a super administrator only; outcomes are the ways
\* the write of _save_state may end
HandlePrivateMessage(sender, cmd, outcomes) ==
    /\ IF sender \notin bili_super_admins
       THEN UNCHANGED <<config, state_file>>
       ELSE LET r == IF cmd.op \in {"enable", "disable", "list"}
                     THEN _handle_group_command(Globals, cmd)
                     ELSE _handle_config_command(Globals, cmd)
            IN  /\ SetGlobals(r.g)
                /\ IF r.save
                   THEN \E outcome \in outcomes :
                          state_file' = _save_state(state_file, r.g, outcome)
                   ELSE UNCHANGED state_file
    /\ UNCHANGED <<call, ret, _processing, tasks, disk, cookie_file>>

\* the process stops and is started again: the module globals are back to their
\* defaults, _init_plugin calls _load_state, the tasks are gone, the files stay
Restart ==
    /\ SetGlobals(_load_state(state_file, Defaults))
    /\ _processing' = {}
    /\ tasks' = [t \in TaskIds |-> FreeTask]
    /\ UNCHANGED <<state_file, call, ret, disk, cookie_file>>

\* a slot holds no running task
Available(tk) == tk.pc \in {"free", "ended"}

FreeSlots(tks) == { t \in TaskIds : Available(tks[t]) }

LowestFree(tks) == CHOOSE t \in FreeSlots(tks) : \A o \in FreeSlots(tks) : t <= o

NewTask(group_id, u) == [FreeTask EXCEPT !.pc = "start", !.group_id = group_id, !.u = u]

\* (variant: the in-flight test left out)
InFlightNever(u, processing) == FALSE

\* if u in _processing: continue
InFlight(u, processing) == u \in processing

\* for u in urls: skip or _processing.add(u) and asyncio.create_task(...);
\* st is [processing, tasks]
RECURSIVE SpawnTasks(_, _, _)
SpawnTasks(urls, group_id, st) ==
    IF urls = <<>> THEN st
    ELSE IF InFlight(Head(urls), st.processing)
         THEN SpawnTasks(Tail(urls), group_id, st)
         ELSE SpawnTasks(Tail(urls), group_id,
                  [processing |-> st.processing \cup {Head(urls)},
                   tasks |-> [st.tasks EXCEPT ![LowestFree(st.tasks)] =
                                 NewTask(group_id, Head(urls))]])

\* the number of tasks the loop creates for urls
RECURSIVE SpawnCount(_, _)
SpawnCount(urls, processing) ==
    IF urls = <<>> THEN 0
    ELSE IF InFlight(Head(urls), processing)
         THEN SpawnCount(Tail(urls), processing)
         ELSE 1 + SpawnCount(Tail(urls), processing \cup {Head(urls)})

\* (variant: every group is served)
GroupEnabledAlways(group_id, groups) == TRUE

\* if group_id not in enabled_groups: return
GroupEnabled(group_id, groups) == group_id \in groups

\* group message: gate on the group, extract the links, start one task per link
\* that is not in flight
HandleGroupMessage(event) ==
    LET urls == _extract_bili_urls_from_event(event) IN
    /\ SpawnCount(urls, _processing) <= Cardinality(FreeSlots(tasks))
    /\ IF ~GroupEnabled(event.group_id, enabled_groups)
       THEN UNCHANGED <<_processing, tasks>>
       ELSE LET st == SpawnTasks(urls, event.group_id,
                                 [processing |-> _processing, tasks |-> tasks])
            IN  /\ _processing' = st.processing
                /\ tasks' = st.tasks
    /\ UNCHANGED <<background, disk>>

(* ----------------------- _task_wrapper, _download_and_send ------------ *)

\* (variant: the link stays in the set)
DiscardNothing(processing, u) == processing

\* finally: _processing.discard(u)
FinallyDiscard(processing, u) == processing \ {u}

\* the task returns (or raises) and the wrapper's finally runs
EndedTask(tk, exit) ==
    [FreeTask EXCEPT !.pc = "ended", !.exit = exit, !.group_id = tk.group_id, !.u = tk.u]

EndTask(t, exit) ==
    /\ tasks' = [tasks EXCEPT ![t] = EndedTask(tasks[t], exit)]
    /\ _processing' = FinallyDiscard(_processing, tasks[t].u)

\* (variant: the duration is never compared with the limit)
TooLongNever(dur, limit) == FALSE

\* (variant: a link whose duration is unknown is rejected as well)
TooLongOrUnknown(dur, limit) == dur = 0 \/ dur > limit

\* if dur is not None: if dur > max_duration_sec: return
TooLong(dur, limit) == dur # 0 /\ dur > limit

\* dur of a task: -1 while the probe has not been called, 0 when it returned None
\* _download_and_send up to its first await: normalize, the duration check, and
\* the call of _download_with_ytdlp in a worker thread with the limits of now
TaskStart(t) ==
    LET tk == tasks[t] IN
    /\ tk.pc = "start"
    /\ \E target \in ExpandTargets, answer \in {0} \cup Durations :
         LET norm == _normalize_bili_url(tk.u, target)
             dur  == IF max_duration_sec > 0
                     THEN _get_bili_duration_seconds(norm, answer) ELSE -1
         IN  IF max_duration_sec > 0 /\ TooLong(dur, max_duration_sec)
             THEN /\ tasks' = [tasks EXCEPT
                                 ![t] = [EndedTask(tk, "too_long") EXCEPT !.dur = dur]]
                  /\ _processing' = FinallyDiscard(_processing, tk.u)
             ELSE /\ tasks' = [tasks EXCEPT ![t].pc = "dl_enter",
                                            ![t].norm_url = norm,
                                            ![t].dur = dur,
                                            ![t].cookie = bilibili_cookie,
                                            ![t].height_limit = max_height,
                                            ![t].size_limit_mb = max_filesize_mb]
                  /\ UNCHANGED _processing
    /\ UNCHANGED <<background, disk>>

\* what ffprobe may answer: it cannot be started, it exits non-zero, its output
\* does not parse, or it reports a height
ProbeOutcomes ==
    { [k |-> "launch_fail", h |-> 0], [k |-> "nonzero", h |-> 0], [k |-> "garbled", h |-> 0] }
    \cup { [k |-> "ok", h |-> h] : h \in Heights \ {0} }

\* (variant: the height ffprobe reports is not compared with the limit)
CheckVideoFileAnyHeight(exists, probe, height_limit, unlink_ok) ==
    [ok |-> exists /\ probe.k # "launch_fail", deleted |-> FALSE]

\* _check_video_file: [ok: the return value, deleted: whether the file was unlinked]
_check_video_file(exists, probe, height_limit, unlink_ok) ==
    IF ~exists THEN [ok |-> FALSE, deleted |-> FALSE]
    ELSE IF probe.k = "launch_fail" THEN [ok |-> FALSE, deleted |-> FALSE]
    ELSE IF probe.k = "ok" /\ height_limit # 0 /\ probe.h > height_limit
         THEN [ok |-> FALSE, deleted |-> unlink_ok]
    ELSE [ok |-> TRUE, deleted |-> FALSE]

\* the worker thread is over: the except clauses of _download_and_send, then
\* _check_video_file, then _send_video_with_timeout up to the send request
TaskAfterDownload(t, probes) ==
    LET tk == tasks[t] IN
    /\ tk.pc = "dl_done"
    /\ IF tk.result # "ok"
       THEN /\ EndTask(t, IF tk.result = "OSError" THEN "dl_exception" ELSE "dl_failed")
            /\ UNCHANGED disk
       ELSE \E probe \in probes, unlink_ok \in BOOLEAN :
              LET exists == disk[tk.final_path] # 0
                  chk    == _check_video_file(exists, probe, max_height, unlink_ok)
                  seen   == IF exists THEN probe ELSE NoProbe
              IN  IF chk.ok
                  THEN /\ tasks' = [tasks EXCEPT
                                      ![t].pc = "sending",
                                      ![t].probe = seen,
                                      ![t].send_path =
                                          SendPath(path_mappings, LocalPath(tk.final_path))]
                       /\ UNCHANGED <<_processing, disk>>
                  ELSE /\ tasks' = [tasks EXCEPT
                                      ![t] = [EndedTask(tk, "check_failed") EXCEPT
                                                !.probe = seen,
                                                !.cleanup =
                                                    IF seen.k = "ok"
                                                    THEN (IF chk.deleted THEN "deleted"
                                                          ELSE "failed")
                                                    ELSE "none"]]
                       /\ _processing' = FinallyDiscard(_processing, tk.u)
                       /\ disk' = Unlink(disk, tk.final_path, chk.deleted)
    /\ UNCHANGED background

\* (variant: the local file is removed only after a successful send)
TaskSendDoneKeepsOnFailure(t) ==
    LET tk == tasks[t] IN
    /\ tk.pc = "sending"
    /\ \E send_ok \in BOOLEAN, unlink_ok \in BOOLEAN :
         /\ tasks' = [tasks EXCEPT
                        ![t] = [EndedTask(tk, IF send_ok THEN "sent" ELSE "send_failed")
                                  EXCEPT !.cleanup =
                                           IF disk[tk.final_path] = 0 \/ ~send_ok THEN "none"
                                           ELSE IF unlink_ok THEN "deleted" ELSE "failed"]]
         /\ _processing' = FinallyDiscard(_processing, tk.u)
         /\ disk' = Unlink(disk, tk.final_path, unlink_ok /\ send_ok)
    /\ UNCHANGED background

\* the send request is answered; finally: unlink the local file if it exists; the
\* task ends
TaskSendDone(t) ==
    LET tk == tasks[t] IN
    /\ tk.pc = "sending"
    /\ \E send_ok \in BOOLEAN, unlink_ok \in BOOLEAN :
         /\ tasks' = [tasks EXCEPT
                        ![t] = [EndedTask(tk, IF send_ok THEN "sent" ELSE "send_failed")
                                  EXCEPT !.cleanup =
                                           IF disk[tk.final_path] = 0 THEN "none"
                                           ELSE IF unlink_ok THEN "deleted" ELSE "failed"]]
         /\ _processing' = FinallyDiscard(_processing, tk.u)
         /\ disk' = Unlink(disk, tk.final_path, unlink_ok)
    /\ UNCHANGED background

(* --------------------- specification of the plugin -------------------- *)

\* the lists the engine returns in the plugin specification
EngineLists ==
    { << [vcodec |-> "avc", height |-> 2, tbr |-> 1, filesize_approx |-> 0, filesize |-> 0] >> }

\* what ffprobe answers in the plugin specification
EngineProbes == { [k |-> "launch_fail", h |-> 0], [k |-> "ok", h |-> 2] }

Init ==
    /\ enabled_groups = {}
    /\ max_height = 0
    /\ max_filesize_mb = 0
    /\ max_duration_sec = 0
    /\ bilibili_cookie = ""
    /\ path_mappings = <<>>
    /\ state_file = AbsentFile
    /\ call = "none"
    /\ ret = "none"
    /\ _processing = {}
    /\ tasks = [t \in TaskIds |-> FreeTask]
    /\ disk = [p \in Videos |-> 0]
    /\ cookie_file = "absent"

Next ==
    \/ \E event \in GroupMessages : HandleGroupMessage(event)
    \/ \E pm \in PrivateMessages : HandlePrivateMessage(pm[1], pm[2], {"ok"})
    \/ \E t \in TaskIds :
         \/ TaskStart(t)
         \/ YtdlpEnter(t)
         \/ YtdlpListFormats(t, EngineLists)
         \/ YtdlpPrecheck(t)
         \/ YtdlpFetch(t)
         \/ YtdlpPostcheck(t)
         \/ YtdlpExhausted(t)
         \/ TaskAfterDownload(t, EngineProbes)
         \/ TaskSendDone(t)

Spec == Init /\ [][Next]_vars

(* ------------------- specification of the selector -------------------- *)

\* one task inside asyncio.to_thread(_download_with_ytdlp, ...), called with the
\* limits in force
InitSel ==
    /\ enabled_groups = {1}
    /\ max_height \in HeightLimits
    /\ max_filesize_mb \in SizeLimits
    /\ max_duration_sec = 0
    /\ bilibili_cookie = ""
    /\ path_mappings = <<>>
    /\ state_file = AbsentFile
    /\ call = "none"
    /\ ret = "none"
    /\ _processing = {<<"bv", 1>>}
    /\ tasks = [t \in TaskIds |->
                  IF t = 1
                  THEN [FreeTask EXCEPT !.pc = "dl_enter", !.group_id = 1,
                                        !.u = <<"bv", 1>>, !.norm_url = <<"bv", 1>>,
                                        !.height_limit = max_height,
                                        !.size_limit_mb = max_filesize_mb]
                  ELSE FreeTask]
    /\ disk = [p \in Videos |-> 0]
    /\ cookie_file = "absent"

NextSel ==
    \/ YtdlpEnter(1)
    \/ YtdlpListFormats(1, AllFormatLists)
    \/ YtdlpPrecheck(1)
    \/ YtdlpFetch(1)
    \/ YtdlpPostcheck(1)
    \/ YtdlpExhausted(1)

SpecSel == InitSel /\ [][NextSel]_vars

(* ------------------- specification of one pipeline -------------------- *)

\* the entries of the remap tables in force when a pipeline runs
MapEntries ==
    { [virt |-> <<"/", "v">>, real |-> <<"/", "d">>],
      [virt |-> <<"/", "w">>, real |-> DOWNLOAD_DIR],
      [virt |-> <<"/", "w">>, real |-> <<"/", "x">>] }

\* the remap tables: the virtual paths are the keys of a dict
PipeTables ==
    { m \in SeqsUpTo(MapEntries, 2) :
        \A j, k \in 1 .. Len(m) : j # k => m[j].virt # m[k].virt }

\* the link strings of the task
PipeLinks == { <<"bv", 1>>, <<"short", 1>> }

\* the height limit is changed while the task runs
PipeMessages ==
    { <<a, [op |-> "set_height", arg |-> h]>> : a \in bili_super_admins, h \in HeightLimits }

\* one task just created by the handler for a link of group 1, under the settings
\* loaded from state.json
InitPipe ==
    /\ enabled_groups = {1}
    /\ bilibili_cookie = ""
    /\ max_height \in HeightLimits
    /\ max_filesize_mb = 0
    /\ max_duration_sec \in DurationLimits
    /\ path_mappings \in PipeTables
    /\ state_file = FileRecord(StateData(Globals))
    /\ call = "none"
    /\ ret = "none"
    /\ \E u \in PipeLinks :
         /\ _processing = {u}
         /\ tasks = [t \in TaskIds |-> IF t = 1 THEN NewTask(1, u) ELSE FreeTask]
    /\ disk = [p \in Videos |-> 0]
    /\ cookie_file = "absent"

NextPipe ==
    \/ \E pm \in PipeMessages : HandlePrivateMessage(pm[1], pm[2], {"ok"})
    \/ TaskStart(1)
    \/ YtdlpEnter(1)
    \/ YtdlpListFormats(1, EngineLists)
    \/ YtdlpPrecheck(1)
    \/ YtdlpFetch(1)
    \/ YtdlpPostcheck(1)
    \/ YtdlpExhausted(1)
    \/ TaskAfterDownload(1, ProbeOutcomes)
    \/ TaskSendDone(1)

SpecPipe == InitPipe /\ [][NextPipe]_vars

(* ---------------- specification of the administration ---------------- *)

\* the private messages of an administrator, and one of another user
AdminMessages ==
    { <<a, cmd>> : a \in bili_super_admins,
                   cmd \in { c \in Commands :
                               \/ c.op \in {"enable", "disable"} /\ c.arg = 1
                               \/ c.op \in {"set_height", "set_maxsize", "set_maxdur"}
                               \/ c.op \in {"set_cookie", "clear_cookie"}
                               \/ c.op \in {"list", "show", "list_mappings"}
                               \/ c.op = "set_mapping" /\ c.virt = <<"/", "v">>
                                                       /\ c.real = <<"/", "d">>
                               \/ c.op = "set_mapping" /\ c.virt = <<"w">>
                                                       /\ c.real = DOWNLOAD_DIR
                               \/ c.op = "remove_mapping" /\ c.virt = <<"/", "v">> } }
    \cup { <<o, [op |-> "set_height", arg |-> 1]>> : o \in Users \ bili_super_admins }

\* a fresh installation: no state.json, the globals at their defaults
InitAdmin ==
    /\ SetGlobalsNow(Defaults)
    /\ state_file = AbsentFile
    /\ call = "none"
    /\ ret = "none"
    /\ _processing = {}
    /\ tasks = [t \in TaskIds |-> FreeTask]
    /\ disk = [p \in Videos |-> 0]
    /\ cookie_file = "absent"

NextAdmin ==
    \/ \E pm \in AdminMessages : HandlePrivateMessage(pm[1], pm[2], WriteOutcomes)
    \/ Restart

SpecAdmin == InitAdmin /\ [][NextAdmin]_vars

(* ------------------- specification of the extractor ------------------- *)

\* the segments of the messages given to the extractor
ExtractSegments ==
    { [type |-> "text", payload |-> "str", toks |-> ts] :
        ts \in { << <<"bv", 1>> >>, << <<"av", 1>> >>, << <<"avurl", 2>> >> } }
    \cup { [type |-> "json", payload |-> pl, toks |-> ts] :
             pl \in {"str", "malformed"},
             ts \in { << <<"bv", 1>> >>, << <<"short", 2>> >>, <<>> } }
    \cup { [type |-> ty, payload |-> "nontext", toks |-> <<>>] : ty \in {"text", "json"} }
    \cup { [type |-> "image", payload |-> "nontext", toks |-> <<>>] }

ExtractEvents ==
    { [group_id |-> 1, segs |-> segs] : segs \in SeqsUpTo(ExtractSegments, MaxSegs) }

\* a group message arrives in an enabled group; the extractor has not run yet
InitExtract ==
    /\ SetGlobalsNow([Defaults EXCEPT !.enabled_groups = {1}])
    /\ state_file = AbsentFile
    /\ call \in ExtractEvents
    /\ ret = [done |-> FALSE, urls |-> <<>>]
    /\ _processing = {}
    /\ tasks = [t \in TaskIds |-> FreeTask]
    /\ disk = [p \in Videos |-> 0]
    /\ cookie_file = "absent"

\* urls = _extract_bili_urls_from_event(event)
CallExtract ==
    /\ ~ret.done
    /\ ret' = [done |-> TRUE, urls |-> _extract_bili_urls_from_event(call)]
    /\ UNCHANGED <<config, state_file, call, _processing, tasks, disk, cookie_file>>

NextExtract == CallExtract

SpecExtract == InitExtract /\ [][NextExtract]_vars

(* ------------------- specification of the normalizer ------------------ *)

\* the candidate strings that refer to video 1
CandidatesOfVideo ==
    { <<k, 1>> : k \in {"av", "avurl", "avslash", "aidq", "short", "bv", "bvq"} }

\* two candidates for the same video, each with the end of its redirect
NormCalls ==
    { [a |-> a, ta |-> ta, b |-> b, tb |-> tb] :
        a \in CandidatesOfVideo, b \in CandidatesOfVideo,
        ta \in ExpandTargets, tb \in ExpandTargets }

\* two links to the same video are about to be normalized
InitNorm ==
    /\ SetGlobalsNow([Defaults EXCEPT !.enabled_groups = {1}])
    /\ state_file = AbsentFile
    /\ call \in { c \in NormCalls : /\ (c.a[1] # "short" => c.ta = "fail")
                                     /\ (c.b[1] # "short" => c.tb = "fail") }
    /\ ret = [done |-> FALSE, a |-> NoLink, b |-> NoLink]
    /\ _processing = {}
    /\ tasks = [t \in TaskIds |-> FreeTask]
    /\ disk = [p \in Videos |-> 0]
    /\ cookie_file = "absent"

\* norm_url = _normalize_bili_url(url), for both links
CallNormalize ==
    /\ ~ret.done
    /\ ret' = [done |-> TRUE,
               a |-> _normalize_bili_url(call.a, call.ta),
               b |-> _normalize_bili_url(call.b, call.tb)]
    /\ UNCHANGED <<config, state_file, call, _processing, tasks, disk, cookie_file>>

NextNorm == CallNormalize

SpecNorm == InitNorm /\ [][NextNorm]_vars

(* ---------------- specification of repeated normalization ------------- *)

\* the link strings given to the normalizer: every form, for every video
RenormLinks ==
    { <<k, v>> : k \in {"av", "avurl", "avslash", "aidq", "short", "bv", "bvq"},
                 v \in Videos }

\* a link with the ends of the redirect at the first and at the second call
RenormCalls ==
    { [x |-> x, t1 |-> t1, t2 |-> t2] :
        x \in RenormLinks, t1 \in ExpandTargets, t2 \in ExpandTargets }

\* a link is about to be normalized; only a short link is redirected
InitRenorm ==
    /\ SetGlobalsNow([Defaults EXCEPT !.enabled_groups = {1}])
    /\ state_file = AbsentFile
    /\ call \in { c \in RenormCalls : c.x[1] # "short" => (c.t1 = "fail" /\ c.t2 = "fail") }
    /\ ret = [calls |-> 0, once |-> NoLink, twice |-> NoLink]
    /\ _processing = {}
    /\ tasks = [t \in TaskIds |-> FreeTask]
    /\ disk = [p \in Videos |-> 0]
    /\ cookie_file = "absent"

\* y = _normalize_bili_url(x)
CallNormalizeOnce ==
    /\ ret.calls = 0
    /\ ret' = [ret EXCEPT !.calls = 1, !.once = _normalize_bili_url(call.x, call.t1)]
    /\ UNCHANGED <<config, state_file, call, _processing, tasks, disk, cookie_file>>

\* z = _normalize_bili_url(y)
CallNormalizeAgain ==
    /\ ret.calls = 1
    /\ ret' = [ret EXCEPT !.calls = 2, !.twice = _normalize_bili_url(ret.once, call.t2)]
    /\ UNCHANGED <<config, state_file, call, _processing, tasks, disk, cookie_file>>

NextRenorm == CallNormalizeOnce \/ CallNormalizeAgain

SpecRenorm == InitRenorm /\ [][NextRenorm]_vars

(* ------------------- specification of single links ------------------- *)

\* group messages of one text segment that holds one link, once
LinkEvents ==
    { [group_id |-> 1, segs |-> << [type |-> "text", payload |-> "str", toks |-> <<u>>] >>] :
        u \in { <<"bv", 1>>, <<"avslash", 1>> } }

\* group 1 is enabled; nothing is in flight
InitLink ==
    /\ SetGlobalsNow([Defaults EXCEPT !.enabled_groups = {1}])
    /\ state_file = FileRecord(StateData(Globals))
    /\ call = "none"
    /\ ret = "none"
    /\ _processing = {}
    /\ tasks = [t \in TaskIds |-> FreeTask]
    /\ disk = [p \in Videos |-> 0]
    /\ cookie_file = "absent"

NextLink ==
    \/ \E event \in LinkEvents : HandleGroupMessage(event)
    \/ \E t \in TaskIds :
         \/ TaskStart(t)
         \/ YtdlpEnter(t)
         \/ YtdlpListFormats(t, EngineLists)
         \/ YtdlpPrecheck(t)
         \/ YtdlpFetch(t)
         \/ YtdlpPostcheck(t)
         \/ YtdlpExhausted(t)
         \/ TaskAfterDownload(t, EngineProbes)
         \/ TaskSendDone(t)

SpecLink == InitLink /\ [][NextLink]_vars

(* --------------------------- _bili_av_to_bv --------------------------- *)

\* Python integers are unbounded; a number is modelled as its digits in base
\* 64, least significant first. MaxLimbs digits hold the ids under test and x,
\* the sum of an id and a constant below 2^34.
MaxLimbs == 7

\* the number hi * 2^18 + lo, for lo < 2^18
Num(hi, lo) ==
    [i \in 1 .. MaxLimbs |->
        IF i <= 3 THEN (lo \div (64 ^ (i - 1))) % 64 ELSE (hi \div (64 ^ (i - 4))) % 64]

\* a ^ b for two digits: bit by bit
XorLimb(a, b) ==
    LET bit(k) == ((a \div (2 ^ k)) + (b \div (2 ^ k))) % 2
    IN  bit(0) + 2 * bit(1) + 4 * bit(2) + 8 * bit(3) + 16 * bit(4) + 32 * bit(5)

\* a ^ b
XorNum(a, b) == [i \in 1 .. MaxLimbs |-> XorLimb(a[i], b[i])]

\* a + b: the digits from digit i on, with the carry into digit i (the sum is
\* below 64^MaxLimbs for the numbers under test)
RECURSIVE AddFrom(_, _, _, _)
AddFrom(a, b, i, carry) ==
    IF i > MaxLimbs THEN <<>>
    ELSE <<(a[i] + b[i] + carry) % 64>>
         \o AddFrom(a, b, i + 1, (a[i] + b[i] + carry) \div 64)

AddNum(a, b) == AddFrom(a, b, 1, 0)

\* long division of the digits i and above of a by 58: [q: the quotient's digits,
\* r: the remainder]
RECURSIVE LongDiv58(_, _)
LongDiv58(a, i) ==
    IF i > MaxLimbs THEN [q |-> <<>>, r |-> 0]
    ELSE LET h == LongDiv58(a, i + 1)
             v == 64 * h.r + a[i]
         IN  [q |-> <<v \div 58>> \o h.q, r |-> v % 58]

\* x // 58**i % 58 for i in range(n)
RECURSIVE Digits58(_, _)
Digits58(x, n) ==
    IF n = 0 THEN <<>>
    ELSE LET d == LongDiv58(x, 1) IN <<d.r>> \o Digits58(d.q, n - 1)

\* _bili_av_to_bv: the BV id as its twelve characters
_bili_av_to_bv(aid) ==
    LET table == <<"f", "Z", "o", "d", "R", "9", "X", "Q", "D", "S", "U", "m", "2", "1",
                   "y", "C", "k", "r", "6", "z", "B", "q", "i", "v", "e", "Y", "a", "h",
                   "8", "b", "t", "4", "x", "s", "W", "p", "H", "n", "J", "E", "7", "j",
                   "L", "5", "V", "G", "3", "g", "u", "M", "T", "K", "N", "P", "A", "w",
                   "c", "F">>
        pos   == <<11, 10, 3, 8, 4, 6>>
        xor   == Num(676, 242468)       \* 177451812
        add   == Num(33296, 1984)       \* 8728348608
        x     == AddNum(XorNum(aid, xor), add)
        digit == Digits58(x, 6)
        r     == <<"B", "V", "1", " ", " ", "4", " ", "1", " ", "7", " ", " ">>
    IN  [k \in 1 .. 12 |->
            IF \E i \in 1 .. 6 : pos[i] + 1 = k
            THEN table[digit[CHOOSE i \in 1 .. 6 : pos[i] + 1 = k] + 1]
            ELSE r[k]]

(* --------------------- specification of the codec --------------------- *)

\* the ids under test: hi * 2^18 + lo
AidHighParts == {0, 676, 144864}

AidLowParts == {1, 170001, 242468, 103780}

Aids == { Num(hi, lo) : hi \in AidHighParts, lo \in AidLowParts }

\* two ids are about to be encoded
InitCodec ==
    /\ SetGlobalsNow(Defaults)
    /\ state_file = AbsentFile
    /\ call \in Aids \X Aids
    /\ ret = [done |-> FALSE, bv |-> <<>>]
    /\ _processing = {}
    /\ tasks = [t \in TaskIds |-> FreeTask]
    /\ disk = [p \in Videos |-> 0]
    /\ cookie_file = "absent"

\* bvid = _bili_av_to_bv(aid), for both ids
CallCodec ==
    /\ ~ret.done
    /\ ret' = [done |-> TRUE, bv |-> <<_bili_av_to_bv(call[1]), _bili_av_to_bv(call[2])>>]
    /\ UNCHANGED <<config, state_file, call, _processing, tasks, disk, cookie_file>>

NextCodec == CallCodec

SpecCodec == InitCodec /\ [][NextCodec]_vars

(* ------------------ specification of the credential ------------------- *)

\* an administrator sets and clears the credential
CookieMessages ==
    { <<a, cmd>> : a \in bili_super_admins,
                   cmd \in { c \in Commands : c.op \in {"set_cookie", "clear_cookie"} } }

\* the group messages that hold one link of video 1
CookieEvents ==
    { m \in GroupMessages :
        /\ m.group_id = 1
        /\ \A i \in 1 .. Len(m.segs) : m.segs[i].toks = << <<"bv", 1>> >> }

\* a fresh installation with group 1 enabled
InitCookie ==
    /\ SetGlobalsNow([Defaults EXCEPT !.enabled_groups = {1}])
    /\ state_file = FileRecord(StateData(Globals))
    /\ call = "none"
    /\ ret = "none"
    /\ _processing = {}
    /\ tasks = [t \in TaskIds |-> FreeTask]
    /\ disk = [p \in Videos |-> 0]
    /\ cookie_file = "absent"

NextCookie ==
    \/ \E pm \in CookieMessages : HandlePrivateMessage(pm[1], pm[2], {"ok"})
    \/ \E event \in CookieEvents : HandleGroupMessage(event)
    \/ TaskStart(1)
    \/ YtdlpEnter(1)
    \/ YtdlpListFormats(1, EngineLists)
    \/ YtdlpPrecheck(1)
    \/ YtdlpFetch(1)
    \/ YtdlpPostcheck(1)
    \/ YtdlpExhausted(1)
    \/ TaskAfterDownload(1, EngineProbes)
    \/ TaskSendDone(1)

SpecCookie == InitCookie /\ [][NextCookie]_vars

(* ======================= claims: the rendition selector =============== *)

\* the engine's descriptor of the k-th attempt of a task
AttemptedFmt(tk, k) == tk.info[tk.attempts[k].format_id]

AttemptedIds(tk) == { tk.attempts[k].format_id : k \in 1 .. Len(tk.attempts) }

VideoBearing(tk) == { i \in 1 .. Len(tk.info) : tk.info[i].vcodec # "none" }

\* (height, bitrate) of a compared lexicographically
LexGE(a, b) == a.height > b.height \/ (a.height = b.height /\ a.tbr >= b.tbr)

\* rank order: higher (height, bitrate) first, the engine's order among equals
RankedAbove(tk, i, j) ==
    \/ ~LexGE(tk.info[j], tk.info[i])
    \/ (LexGE(tk.info[i], tk.info[j]) /\ LexGE(tk.info[j], tk.info[i]) /\ i < j)

\* approximate size, else exact size; 0 when neither is declared
DeclaredEstimate(d) == IF d.filesize_approx # 0 THEN d.filesize_approx ELSE d.filesize

TooTall(d, tk) == tk.height_limit > 0 /\ d.height > tk.height_limit

TooBigDeclared(d, tk) ==
    tk.size_limit_mb > 0 /\ DeclaredEstimate(d) # 0 /\ DeclaredEstimate(d) > tk.size_limit_mb * MB

PassesPreChecks(d, tk) == ~TooTall(d, tk) /\ ~TooBigDeclared(d, tk)

FailedOutcomes == {"error", "notfound", "oversize", "oversize_kept"}

\* C1: with a height limit greater than 0, no retrieval attempt is ever issued
\* for a rendition whose declared height exceeds the limit.
C1_HeightFilter ==
    \A t \in TaskIds :
        LET tk == tasks[t] IN
        tk.height_limit > 0 =>
            \A k \in 1 .. Len(tk.attempts) : AttemptedFmt(tk, k).height <= tk.height_limit

\* C1 witness: limit 1, the list holds a taller video rendition, the invocation
\* is over and a rendition within the limit was attempted.
C1_Witness ==
    \E t \in TaskIds :
        LET tk == tasks[t] IN
        /\ tk.pc = "dl_done"
        /\ tk.height_limit = 1
        /\ \E i \in VideoBearing(tk) : tk.info[i].height = 2
        /\ \E k \in 1 .. Len(tk.attempts) : AttemptedFmt(tk, k).height = 1

\* C2: when select returns a file, the returned rendition is the last one
\* attempted, it passed both pre-checks, was retrieved and was not rejected by
\* the post-download check; every earlier attempt failed; and every rendition
\* ranked above it was evaluated: it either failed a pre-check or was attempted.
C2_FirstFit ==
    \A t \in TaskIds :
        LET tk == tasks[t]
            n  == Len(tk.attempts)
        IN  tk.result = "ok" =>
              /\ n >= 1
              /\ tk.attempts[n].outcome = "accepted"
              /\ PassesPreChecks(AttemptedFmt(tk, n), tk)
              /\ \A k \in 1 .. n - 1 : tk.attempts[k].outcome \in FailedOutcomes
              /\ \A k \in 1 .. n - 1 :
                    RankedAbove(tk, tk.attempts[k].format_id, tk.attempts[n].format_id)
              /\ \A i \in VideoBearing(tk) :
                    RankedAbove(tk, i, tk.attempts[n].format_id) =>
                        \/ ~PassesPreChecks(tk.info[i], tk)
                        \/ i \in AttemptedIds(tk)

\* C2 witness: a file was returned for the first-ranked rendition and the
\* second-ranked one, which passes both pre-checks too, was left alone.
C2_Witness ==
    \E t \in TaskIds :
        LET tk == tasks[t] IN
        /\ tk.pc = "dl_done"
        /\ tk.result = "ok"
        /\ Len(tk.formats) = 2
        /\ tk.idx = 1
        /\ Len(tk.attempts) = 1
        /\ PassesPreChecks(tk.formats[2], tk)

\* C3: audio-only renditions are never attempted; attempts happen in
\* non-increasing (height, bitrate) order; with no limits configured the first
\* attempt is a highest-ranked video-bearing rendition.
C3_Ranking ==
    \A t \in TaskIds :
        LET tk == tasks[t]
            n  == Len(tk.attempts)
        IN  /\ \A k \in 1 .. n : AttemptedFmt(tk, k).vcodec # "none"
            /\ \A a, b \in 1 .. n : a < b => LexGE(AttemptedFmt(tk, a), AttemptedFmt(tk, b))
            /\ (tk.height_limit = 0 /\ tk.size_limit_mb = 0 /\ n >= 1) =>
                  \A i \in VideoBearing(tk) : LexGE(AttemptedFmt(tk, 1), tk.info[i])

\* C3 witness: no limits, two renditions of the same height listed with the
\* lower bitrate first, both attempted, the higher bitrate first.
C3_Witness ==
    \E t \in TaskIds :
        LET tk == tasks[t] IN
        /\ tk.height_limit = 0 /\ tk.size_limit_mb = 0
        /\ Len(tk.info) = 2
        /\ tk.info[1].height = tk.info[2].height
        /\ tk.info[1].tbr < tk.info[2].tbr
        /\ Len(tk.attempts) = 2
        /\ tk.attempts[1].format_id = 2

\* C4: with a size limit, a rendition whose declared estimate (approximate size,
\* else exact size) exceeds the limit is never downloaded; a rendition without
\* any estimate is not skipped for its size: once the invocation is over it has
\* been attempted unless it is too tall or a higher-ranked one was accepted.
C4_SizePrecheck ==
    \A t \in TaskIds :
        LET tk == tasks[t]
            n  == Len(tk.attempts)
        IN  tk.size_limit_mb > 0 =>
              /\ \A k \in 1 .. n : ~TooBigDeclared(AttemptedFmt(tk, k), tk)
              /\ (tk.pc = "dl_done" /\ tk.result \in {"ok", "NoSuitable"}) =>
                    \A i \in VideoBearing(tk) :
                        (/\ DeclaredEstimate(tk.info[i]) = 0
                         /\ ~TooTall(tk.info[i], tk)
                         /\ (tk.result = "ok" =>
                                RankedAbove(tk, i, tk.attempts[n].format_id)))
                        => i \in AttemptedIds(tk)

\* C4 witness: limit 1 MB; a rendition declaring one byte more than the limit
\* was never attempted, one declaring nothing was downloaded and then rejected.
C4_Witness ==
    \E t \in TaskIds :
        LET tk == tasks[t] IN
        /\ tk.pc = "dl_done"
        /\ tk.size_limit_mb = 1
        /\ \E i \in VideoBearing(tk) : tk.info[i].filesize_approx = MB + 1
        /\ \E k \in 1 .. Len(tk.attempts) :
              /\ DeclaredEstimate(AttemptedFmt(tk, k)) = 0
              /\ tk.attempts[k].outcome = "oversize"

\* C5: with a size limit, select never returns a file whose actual size is
\* above the limit.
C5_NeverReturnsOversize ==
    \A t \in TaskIds :
        LET tk == tasks[t] IN
        (tk.pc = "dl_done" /\ tk.result = "ok" /\ tk.size_limit_mb > 0) =>
            disk[tk.final_path] <= tk.size_limit_mb * MB

\* C6: a retrieval error or a missing output file is recorded as the latest
\* failure and does not end the invocation: once the invocation is over, every
\* rendition that passes the pre-checks has been attempted unless a
\* higher-ranked one was accepted first.
C6_FailureIsolation ==
    \A t \in TaskIds :
        LET tk == tasks[t]
            n  == Len(tk.attempts)
        IN  /\ (n >= 1 /\ tk.attempts[n].outcome = "error") => tk.last_err = "download"
            /\ (n >= 1 /\ tk.attempts[n].outcome = "notfound") => tk.last_err = "notfound"
            /\ (\E k \in 1 .. n : tk.attempts[k].outcome \in {"error", "notfound"}) =>
                  tk.result \in {"none", "ok", "NoSuitable"}
            /\ tk.pc = "dl_done" /\ tk.result \in {"ok", "NoSuitable"} =>
                  \A i \in VideoBearing(tk) :
                      (/\ PassesPreChecks(tk.info[i], tk)
                       /\ (tk.result = "ok" =>
                              RankedAbove(tk, i, tk.attempts[n].format_id)))
                      => i \in AttemptedIds(tk)

\* C6 witness: the first attempt raised, the second found no file, and the
\* invocation went on to its end.
C6_Witness ==
    \E t \in TaskIds :
        LET tk == tasks[t] IN
        /\ tk.pc = "dl_done"
        /\ Len(tk.attempts) >= 2
        /\ tk.attempts[1].outcome = "error"
        /\ tk.attempts[2].outcome = "notfound"

AllAttemptsOversize(tk) ==
    /\ Len(tk.attempts) >= 1
    /\ \A k \in 1 .. Len(tk.attempts) : tk.attempts[k].outcome \in {"oversize", "oversize_kept"}

Alive(tk) == tk.pc \notin {"free", "ended"}

\* C8: at no time are two in-flight tasks processing the same literal link
\* string, and the string of every in-flight task is in the in-flight set, so
\* that a link found meanwhile with the same string starts no new task.
C8_InFlightExclusive ==
    /\ \A t1, t2 \in TaskIds :
          (t1 # t2 /\ Alive(tasks[t1]) /\ Alive(tasks[t2])) => tasks[t1].u # tasks[t2].u
    /\ \A t \in TaskIds : Alive(tasks[t]) => tasks[t].u \in _processing

\* C8 witness: two tasks in flight at once, for two different strings of the
\* same video, both past their start.
C8_Witness ==
    \E t1, t2 \in TaskIds :
        /\ tasks[t1].pc = "dl_fetch" /\ tasks[t1].u = <<"bv", 1>>
        /\ tasks[t2].pc = "dl_fetch" /\ tasks[t2].u = <<"av", 1>>
        /\ _processing = {<<"bv", 1>>, <<"av", 1>>}

\* C9: every string in the in-flight set belongs to a task that is still in
\* flight: the string is removed when its task ends, whatever the exit path, and
\* the set is empty whenever no task is running.
C9_InFlightReleased ==
    /\ \A u \in _processing : \E t \in TaskIds : Alive(tasks[t]) /\ tasks[t].u = u
    /\ \A t \in TaskIds :
          (tasks[t].pc = "ended" /\ tasks[t].u \in _processing) =>
              \E t2 \in TaskIds : t2 # t /\ Alive(tasks[t2]) /\ tasks[t2].u = tasks[t].u

\* C9 witness: a task ended on the exception path, its string left the set, and
\* a later message with the same string has started a new task.
C9_Witness ==
    \E t1, t2 \in TaskIds :
        /\ tasks[t1].pc = "ended" /\ tasks[t1].exit = "dl_exception"
        /\ tasks[t2].pc = "start" /\ tasks[t2].u = tasks[t1].u
        /\ _processing = {tasks[t1].u}

\* a task is created in the slot by this step
Started(t) == tasks'[t].pc = "start" /\ tasks[t].pc # "start"

\* C10: a task is started, and a string added to the in-flight set, only for a
\* message of a group that is in the enabled set when the message arrives; a
\* message of any other group changes neither the tasks, nor the set, nor the
\* download directory.
C10_GroupGating ==
    [][ /\ \A t \in TaskIds : Started(t) => tasks'[t].group_id \in enabled_groups
        /\ \A u \in _processing' \ _processing :
              \E t \in TaskIds : Started(t) /\ tasks'[t].u = u
        /\ \A event \in GroupMessages :
              (event.group_id \notin enabled_groups /\ HandleGroupMessage(event)) =>
                  UNCHANGED <<_processing, tasks, disk>>
      ]_vars

\* C10 witness: group 1 is enabled, group 2 is not, and a task has been started
\* for a message of group 1.
C10_Witness ==
    /\ enabled_groups = {1}
    /\ \E t \in TaskIds : tasks[t].pc = "start" /\ tasks[t].group_id = 1

(* ========================= claims: the duration check ================== *)

\* task t leaves the start of _download_and_send in this step
LeavesStart(t) == tasks[t].pc = "start" /\ tasks'[t] # tasks[t]

\* task t goes on to the rendition selector with the limits in force, nothing
\* else changing
EntersSelector(t) ==
    /\ tasks'[t].pc = "dl_enter"
    /\ tasks'[t].height_limit = max_height
    /\ tasks'[t].size_limit_mb = max_filesize_mb
    /\ tasks'[t].exit = "none"
    /\ _processing' = _processing
    /\ disk' = disk

\* C11: when a maximum duration greater than 0 is configured and the probe returns
\* a duration above it, the task ends at once: it never enters the selector (no
\* listing, no attempt), no file appears and nothing is sent; a task ends as
\* too long only from the start of the pipeline.
C11_DurationEarlyReject ==
    [][\A t \in TaskIds :
         /\ (LeavesStart(t) /\ max_duration_sec > 0 /\ tasks'[t].dur > max_duration_sec)
              => /\ tasks'[t].pc = "ended"
                 /\ tasks'[t].exit = "too_long"
                 /\ tasks'[t].info = <<>>
                 /\ tasks'[t].attempts = <<>>
                 /\ disk' = disk
         /\ (tasks'[t].exit = "too_long" /\ tasks'[t] # tasks[t])
              => tasks[t].pc = "start"]_vars

\* C11 witness: with a limit of 1 second a link probed at 2 seconds has ended as
\* too long, with no file in the download directory.
C11_Witness ==
    /\ max_duration_sec = 1
    /\ \A p \in Videos : disk[p] = 0
    /\ \E t \in TaskIds :
         tasks[t].pc = "ended" /\ tasks[t].exit = "too_long" /\ tasks[t].dur = 2

\* C12: a task whose probe returned nothing, like a task started without a
\* duration limit, goes on to the rendition selector; a task ends as too long only
\* with a duration obtained and above a limit greater than 0.
C12_UnknownDurationPasses ==
    [][\A t \in TaskIds :
         LeavesStart(t) =>
           /\ tasks'[t].dur \in {-1, 0} => EntersSelector(t)
           /\ tasks'[t].dur = -1 <=> max_duration_sec = 0
           /\ tasks'[t].exit = "too_long"
                => /\ max_duration_sec > 0
                   /\ tasks'[t].dur > 0
                   /\ tasks'[t].dur > max_duration_sec]_vars

\* C12 witness: the probe was called (a limit is configured), returned nothing,
\* and the task has got a file from the selector.
C12_Witness ==
    \E t \in TaskIds :
      /\ tasks[t].dur = 0
      /\ tasks[t].pc = "dl_done"
      /\ tasks[t].result = "ok"

(* ================== claims: validation, remap and cleanup ============== *)

\* task t leaves the end of its download in this step, with a file to inspect
Inspects(t) ==
    /\ tasks[t].pc = "dl_done"
    /\ tasks'[t].pc # "dl_done"
    /\ tasks'[t].probe.k # "none"

\* the inspection tool failed or gave output that does not parse
ProbeFailures == {"launch_fail", "nonzero", "garbled"}

\* C13: if the inspection tool cannot be started, exits non-zero or returns
\* unparseable output for an existing file, validate returns true and the file is
\* kept and handed to the transport.
C13_InspectionFailureAccepted ==
    [][\A t \in TaskIds :
         (Inspects(t) /\ tasks'[t].probe.k \in ProbeFailures)
           => /\ tasks'[t].pc = "sending"
              /\ disk' = disk]_vars

\* the inspected height is above the limit in force at the inspection
InspectedTooTall(t) ==
    /\ Inspects(t)
    /\ tasks'[t].probe.k = "ok"
    /\ max_height > 0
    /\ tasks'[t].probe.h > max_height

IsPrefixOf(a, b) == Len(a) <= Len(b) /\ \A k \in 1 .. Len(a) : a[k] = b[k]

\* the entries of the table whose real path is a prefix of the local path
MatchingEntries(m, p) == { k \in 1 .. Len(m) : IsPrefixOf(m[k].real, p) }

\* those of them with the longest real path
LongestEntries(m, p) ==
    { k \in MatchingEntries(m, p) :
        \A j \in MatchingEntries(m, p) : Len(m[j].real) <= Len(m[k].real) }

\* the virtual path an entry gives: its virtual prefix, then what follows the
\* real prefix in the local path
VirtualPath(e, p) == e.virt \o SubSeq(p, Len(e.real) + 1, Len(p))

\* C15: the path handed to the transport is built from the entry with the longest
\* real prefix of the local path, whatever the order of the table; a file under
\* no mapped prefix is sent with its local path.
C15_LongestPrefix ==
    \A t \in TaskIds :
      tasks[t].pc = "sending" =>
        LET p == DOWNLOAD_DIR \o <<"/", tasks[t].final_path>>
            m == path_mappings
        IN  IF MatchingEntries(m, p) = {}
            THEN tasks[t].send_path = p
            ELSE \E k \in LongestEntries(m, p) : tasks[t].send_path = VirtualPath(m[k], p)

\* task t leaves the send step in this step
LeavesSend(t) == tasks[t].pc = "sending" /\ tasks'[t].pc # "sending"

Restored(file) ==
    IF file.kind # "record" THEN Defaults
    ELSE [file.data EXCEPT !.enabled_groups = { file.data.enabled_groups[k] :
                                                 k \in 1 .. Len(file.data.enabled_groups) }]

\* this step is an administrator's command whose write, if any, succeeded
CommandWritten ==
    \E pm \in AdminMessages :
      pm[1] \in bili_super_admins /\ HandlePrivateMessage(pm[1], pm[2], {"ok"})

C18_AtomicRewrite ==
    [][ \/ state_file' = state_file
        \/ /\ state_file'.kind = "record"
           /\ Restored(state_file') = Globals' ]_vars

(* ============================ claims: extractor ======================== *)

\* handling the segment fails: a card that does not parse, a payload that is not
\* a string
FailingSegment(sg) == sg.payload \in {"malformed", "nontext"}

\* x is an element of the sequence
InSeq(x, sq) == \E k \in 1 .. Len(sq) : sq[k] = x

\* C19: a failure on one segment does not abort the scan: the extractor returns
\* every link of every other segment, before or after the failing one, and the
\* av forms of the plain text.
C19_PartialFailure ==
    ret.done =>
      \A k \in 1 .. Len(call.segs) :
        LET sg == call.segs[k] IN
        ~FailingSegment(sg) =>
          \A j \in 1 .. Len(sg.toks) :
            LET tok == sg.toks[j] IN
            /\ tok[1] \in {"bv", "short", "avurl", "avslash"} => InSeq(tok, ret.urls)
            /\ (sg.type = "text" /\ tok[1] \in {"av", "avurl", "avslash"})
                 => InSeq(<<"av", tok[2]>>, ret.urls)
            /\ (sg.type = "text" /\ tok[1] \in {"avurl", "avslash"})
                 => InSeq(<<"avslash", tok[2]>>, ret.urls)

(* ============================ claims: normalizer ======================= *)

\* the redirect of a short link succeeded
Expanded(link, target) == link[1] = "short" => target # "fail"

\* C20: any two candidate strings that refer to the same video (a bare av id, a
\* /video/av URL, an aid-query URL, a short link expanding to it, a BV URL with
\* or without a query) normalize to the same string.
C20_CanonicalUnique ==
    (ret.done /\ Expanded(call.a, call.ta) /\ Expanded(call.b, call.tb))
      => ret.a = ret.b

(* ---------------------------------------------------------------------- *)
(* C21: once the credential has been cleared by the administrator's clear  *)
(* command, the credential file written for an earlier credential does not *)
(* exist on disk, and no retrieval started afterwards uses it: a task that  *)
(* took the empty credential runs the engine without the file.             *)
(* ---------------------------------------------------------------------- *)
C21_ClearedFileGone ==
    /\ bilibili_cookie = "" => cookie_file = "absent"
    /\ \A t \in TaskIds :
         tasks[t].pc \notin {"free", "start", "ended"} /\ tasks[t].cookie = ""
            => ~tasks[t].cookiefile
(* ---------------------------------------------------------------------- *)
(* C22: tasks do not interfere: while a task holds a file it has           *)
(* downloaded and has not yet handed to the validator and the send step,   *)
(* no step of another task deletes that file (the part of the claim that   *)
(* does not depend on whether the engine rewrites an existing file).       *)
(* ---------------------------------------------------------------------- *)
HoldsDownload(tk) == tk.pc = "dl_done" /\ tk.result = "ok"

C22_NoInterference ==
    [][\A t \in TaskIds :
         HoldsDownload(tasks[t]) /\ tasks'[t] = tasks[t]
            => (disk[tasks[t].final_path] # 0 => disk'[tasks[t].final_path] # 0)]_vars
(* ---------------------------------------------------------------------- *)
(* C23: the list the extractor returns holds no string twice, however      *)
(* often and in however many segments (or in the plain-text scan) a link   *)
(* occurs, and the candidates are in the order in which the extractor     *)
(* first met them.                                                         *)
(* ---------------------------------------------------------------------- *)
\* the link strings the extractor meets, in the order of its scans: segment by
\* segment up to one that raises, then the av numbers and the av URLs of the text
RECURSIVE SeenInSegments(_)
SeenInSegments(segs) ==
    IF segs = <<>> \/ Raises(Head(segs)) THEN <<>>
    ELSE LET found == SelectSeq(Head(segs).toks, LAMBDA tok : tok[1] \in UrlKinds)
         IN  found \o (IF Head(segs).type = "json" /\ Head(segs).payload = "str"
                       THEN found ELSE <<>>)
             \o SeenInSegments(Tail(segs))

Seen(event) ==
    SeenInSegments(event.segs)
    \o (IF \E i \in 1 .. Len(event.segs) : Raises(event.segs[i]) THEN <<>>
        ELSE AvTokens(PlainText(event.segs)) \o AvUrls(PlainText(event.segs)))

FirstIndex(seq, x) == CHOOSE i \in 1 .. Len(seq) : seq[i] = x /\ \A j \in 1 .. i - 1 : seq[j] # x

Occurrences(seq, x) == Cardinality({ i \in 1 .. Len(seq) : seq[i] = x })

C23_UniqueFirstSeen ==
    ret.done =>
      LET urls == ret.urls
          seen == Seen(call)
      IN  /\ \A i, j \in 1 .. Len(urls) : i # j => urls[i] # urls[j]
          /\ { urls[i] : i \in 1 .. Len(urls) } = { seen[i] : i \in 1 .. Len(seen) }
          /\ \A i, j \in 1 .. Len(urls) :
                i < j => FirstIndex(seen, urls[i]) < FirstIndex(seen, urls[j])

\* C23 witness: a link met three times across two segments is returned once
C23_Witness ==
    /\ ret.done
    /\ Len(call.segs) = 2
    /\ \E u \in { <<k, v>> : k \in UrlKinds, v \in Videos } :
         /\ \A i \in 1 .. 2 : InSeq(u, call.segs[i].toks)
         /\ Occurrences(Seen(call), u) = 3
         /\ Occurrences(ret.urls, u) = 1
         /\ Len(ret.urls) >= 1
(* ---------------------------------------------------------------------- *)
(* C24: the encoder is injective: two distinct non-negative numeric ids,   *)
(* of any magnitude, are never encoded as the same alphanumeric id.        *)
(* ---------------------------------------------------------------------- *)
C24_EncodeInjective ==
    ret.done => (call[1] # call[2] => ret.bv[1] # ret.bv[2])
(* ---------------------------------------------------------------------- *)
(* C25: the normalizer is idempotent on canonical URLs: for a BV URL,      *)
(* with or without extra query parameters, normalizing the result of the  *)
(* normalizer gives that result again.                                     *)
(* ---------------------------------------------------------------------- *)
Canonical(x) == x[1] \in {"bv", "bvq"}

C25_Idempotent ==
    ret.calls = 2 /\ Canonical(call.x) => ret.twice = ret.once

\* C25 witness: a BV URL with a query string has been normalized twice
C25_Witness ==
    /\ ret.calls = 2
    /\ call.x[1] = "bvq"
    /\ ret.once = call.x
    /\ ret.twice = call.x
(* ---------------------------------------------------------------------- *)
(* C26: a group message that references one video once (its only content  *)
(* is one link) starts at most one pipeline task.                          *)
(* ---------------------------------------------------------------------- *)
\* the slots in which the step starts a task
StartedNow == { t \in TaskIds : tasks[t].pc # "start" /\ tasks'[t].pc = "start" }

C26_OneTaskPerLink ==
    [][\A event \in LinkEvents :
         HandleGroupMessage(event) => Cardinality(StartedNow) <= 1]_vars
(* ---------------------------------------------------------------------- *)
(* C27: when the pipeline of a link has terminated, on any path (sent,     *)
(* send failed, rejected by the validator for any reason, selector         *)
(* failed), no file it downloaded remains in the download directory.       *)
(* ---------------------------------------------------------------------- *)
C27_NoLeftover ==
    \A t \in TaskIds : tasks[t].pc = "ended" => disk[PathOf(tasks[t].u)] = 0
(* ---------------------------------------------------------------------- *)
(* C28: the enabled groups, the credential, the three limits and the       *)
(* remap table, in memory and in state.json, change only in the handling   *)
(* of a private message whose sender is a super administrator; group       *)
(* messages, private messages of anyone else and the steps of the tasks    *)
(* leave them unchanged.                                                   *)
(* ---------------------------------------------------------------------- *)
\* the step handles a private message of a super administrator
AdminCommandStep ==
    \E pm \in PrivateMessages :
        pm[1] \in bili_super_admins /\ HandlePrivateMessage(pm[1], pm[2], {"ok"})

C28_OnlyAdminsMutate ==
    [][config' # config \/ state_file' # state_file => AdminCommandStep]_vars

\* C28 witness: an administrator has changed the settings, they are persisted,
\* and a pipeline has run to its end under them
C28_Witness ==
    /\ enabled_groups = {1}
    /\ max_duration_sec # 0
    /\ state_file = FileRecord(StateData(Globals))
    /\ \E t \in TaskIds : tasks[t].pc = "ended" /\ tasks[t].exit = "sent"
(* ---------------------------------------------------------------------- *)
(* C29: no attachment is sent to a group that is not enabled at the        *)
(* moment of sending: a task started before its group was disabled sends   *)
(* nothing to it afterwards.                                               *)
(* ---------------------------------------------------------------------- *)
\* the step issues the send request of task t
SendsNow(t) == tasks[t].pc # "sending" /\ tasks'[t].pc = "sending"

C29_NoSendToDisabledGroup ==
    [][\A t \in TaskIds : SendsNow(t) => tasks[t].group_id \in enabled_groups]_vars
====
